---- MODULE Spec2Model ----
(***************************************************************************)
(* Transaction and inventory consistency of the vending backend: the order *)
(* lifecycle (routes/orders.js), payment reconciliation                    *)
(* (routes/payments.js, routes/debug.js), the dispense trigger/confirm     *)
(* protocol (routes/dispense.js, services/mqttService.js) and the stock    *)
(* ledger (routes/stock.js, telemetry in services/mqttService.js).         *)
(*                                                                         *)
(* Every request handler is an async function: each awaited database call  *)
(* is one atomic step and handlers interleave between their awaits.  A     *)
(* handler in flight occupies a lane of `tasks`; its first database call   *)
(* is taken by the action that admits the request into a free lane, its    *)
(* last one frees the lane.                                                *)
(***************************************************************************)
EXTENDS Integers, Sequences, FiniteSets, TLC

\* ---------------------------------------------------------------- bounds
MaxTicks == 1
MaxStockLogs == 1
MaxDispenseLogs == 2
MaxInitialStock == 3

\* ------------------------------------------------------------ id spaces
OrderIds == {1}
SlotIds == {1, 2}
Lanes == {1, 2}
OneLane == {1}

\* ------------------------------------------------- program constants
NULL == -1
ExpiryMinutes == 15
\* the clock is observed once per expiry window, just after the window closes
TickMinutes == ExpiryMinutes + 1
FullStock == 10
HighStock == 8
MediumStock == 5
LowStock == 2
EmptyStock == 0

\* slots table: provisioning data read by the handlers, written by none
Capacity(s) == IF s = 1 THEN 10 ELSE 5
\* two more slot rows that no handler writes: one with is_active = 0, one whose
\* product has is_active = 0; both hold the stock they were provisioned with
RetiredSlot == 3
DelistedSlot == 4
CatalogSlots == SlotIds \cup {RetiredSlot, DelistedSlot}
SlotActive(s) == s # RetiredSlot
ProductActive(s) == s # DelistedSlot
Price(s) == IF s = 1 THEN 3 ELSE 2
PriceOverride(s) == IF s = 2 THEN 1 ELSE 0
InitialStock(s) == IF s = 1 THEN 2 ELSE 1

\* ------------------------------------------------------------ inputs
TransactionStatuses == {"settlement", "pending", "expire"}
VerifyStatuses == {"SUCCESS", "FAILED"}
DebugStatuses == {"SUCCESS", "FAILED", "PENDING"}
Levels == {"EMPTY", "LOW", "MEDIUM", "HIGH", "FULL", "UNKNOWN"}
ChangeTypes == {"RESTOCK", "MANUAL_ADJUST", "AUDIT"}
UpdateQuantities == {0, 1, 12}
OrderQuantities == {1, 2}

VARIABLES
    now,            \* wall clock, minutes
    useSupabase,    \* process.env.USE_SUPABASE === "true"
    orders,         \* orders table, by order id; items: the slots of its order_items
    payments,       \* payments table, by order id
    stock,          \* slots.current_stock, by slot id
    stock0,         \* slots.current_stock at provisioning
    stockLogs,      \* stock_logs table, in insertion order
    dispenseLogs,   \* dispense_logs table, in insertion order
    published,      \* dispense commands handed to publishDispenseCommand, per order
    tasks           \* the handler in flight in each lane

vars == <<now, useSupabase, orders, payments, stock, stock0, stockLogs,
          dispenseLogs, published, tasks>>

\* ------------------------------------------------------------ rows
NoOrder == [status |-> "NONE", slot_id |-> 0, quantity |-> 0, total_amount |-> 0,
            expires_at |-> NULL, paid_at |-> NULL, dispensed_at |-> NULL,
            notes |-> "NULL", items |-> {}]

NoPayment == [status |-> "NONE", amount |-> 0, processed_at |-> NULL]

Exists(o) == orders[o].status # "NONE"

Task(kind, pc, o, s, inp, ok, drop, n, loc) ==
    [kind |-> kind, pc |-> pc, o |-> o, s |-> s, inp |-> inp, ok |-> ok,
     drop |-> drop, n |-> n, loc |-> loc]

Min(a, b) == IF a < b THEN a ELSE b
Max(a, b) == IF a > b THEN a ELSE b

\* ------------------------------------------------------------ lanes
NoTask == Task("idle", "", 0, 0, "", FALSE, FALSE, 0, 0)
Admits(l) == tasks[l] = NoTask
Spawn(l, t) == tasks' = [tasks EXCEPT ![l] = t]
Replace(l, u) == tasks' = [tasks EXCEPT ![l] = u]
Finish(l) == tasks' = [tasks EXCEPT ![l] = NoTask]
Goto(l, pc) == tasks' = [tasks EXCEPT ![l].pc = pc]

\* ------------------------------------------------------------ Init
InitTables ==
    /\ now = 0
    /\ useSupabase \in BOOLEAN
    /\ orders = [o \in OrderIds |-> NoOrder]
    /\ payments = [o \in OrderIds |-> NoPayment]
    /\ stock = stock0
    /\ stockLogs = <<>>
    /\ dispenseLogs = <<>>
    /\ published = [o \in OrderIds |-> 0]
    /\ tasks = [l \in Lanes |-> NoTask]

Init ==
    /\ stock0 = [s \in SlotIds |-> InitialStock(s)]
    /\ InitTables

\* ------------------------------------------------------------ clock
Tick ==
    /\ now + TickMinutes <= MaxTicks * TickMinutes
    /\ now' = now + TickMinutes
    /\ UNCHANGED <<useSupabase, orders, payments, stock, stock0, stockLogs,
                   dispenseLogs, published, tasks>>

\* ------------------------------------------------ payment reconciliation
\* switch (transaction_status) of the webhook
PaymentStatusOf(ts) ==
    CASE ts \in {"capture", "settlement"} -> "SUCCESS"
      [] ts = "pending" -> "PENDING"
      [] ts \in {"deny", "cancel", "expire"} -> "FAILED"
      [] OTHER -> "PENDING"

\* a declined payment leaves the order waiting
OrderStatusOfLenient(ts) ==
    CASE ts \in {"capture", "settlement"} -> "PAID"
      [] OTHER -> "PENDING"

OrderStatusOf(ts) ==
    CASE ts \in {"capture", "settlement"} -> "PAID"
      [] ts = "pending" -> "PENDING"
      [] ts \in {"deny", "cancel", "expire"} -> "FAILED"
      [] OTHER -> "PENDING"

\* verify: status === "SUCCESS" ? ... : ...
VerifyPaymentStatus(st) == IF st = "SUCCESS" THEN "SUCCESS" ELSE "FAILED"
VerifyOrderStatus(st) == IF st = "SUCCESS" THEN "PAID" ELSE "FAILED"

\* debug update-payment: status || "SUCCESS" is the payment status as given
DebugOrderStatus(st) == IF st = "SUCCESS" THEN "PAID" ELSE "FAILED"

\* the (payment, order) status pair a payment task writes
TaskPaymentStatus(t) ==
    CASE t.kind = "webhook" -> PaymentStatusOf(t.inp)
      [] t.kind = "verify" -> VerifyPaymentStatus(t.inp)
      [] OTHER -> t.inp

TaskOrderStatus(t) ==
    CASE t.kind = "webhook" -> OrderStatusOf(t.inp)
      [] t.kind = "verify" -> VerifyOrderStatus(t.inp)
      [] OTHER -> DebugOrderStatus(t.inp)

\* UPDATE payments SET status = ?, processed_at = NOW() WHERE order_id = ?
UpdatePayment(o, ps) ==
    IF payments[o].status = "NONE" THEN payments
    ELSE [payments EXCEPT ![o].status = ps, ![o].processed_at = now]

\* UPDATE orders SET status = ?, paid_at = NOW() | NULL WHERE id = ?   (MySQL)
UpdateOrderMysql(o, os, ps) ==
    IF ~Exists(o) THEN orders
    ELSE [orders EXCEPT ![o].status = os,
                        ![o].paid_at = IF ps = "SUCCESS" THEN now ELSE NULL]

\* .update({status, paid_at only on SUCCESS}).eq("id", order_id)   (Supabase)
UpdateOrderSupabase(o, os, ps) ==
    IF ~Exists(o) THEN orders
    ELSE [orders EXCEPT ![o].status = os,
                        ![o].paid_at = IF ps = "SUCCESS" THEN now ELSE @]

\* webhook, MySQL: db.transaction updates payment and order together
WebhookTxn(l, o, ts) ==
    /\ Admits(l)
    /\ ~useSupabase
    /\ payments' = UpdatePayment(o, PaymentStatusOf(ts))
    /\ orders' = UpdateOrderMysql(o, OrderStatusOf(ts), PaymentStatusOf(ts))
    /\ IF PaymentStatusOf(ts) = "SUCCESS"
       THEN Spawn(l, Task("webhook", "post", o, 0, ts, FALSE, FALSE, 0, 0))
       ELSE UNCHANGED tasks
    /\ UNCHANGED <<now, useSupabase, stock, stock0, stockLogs, dispenseLogs, published>>

\* webhook, Supabase: first the payment update alone
WebhookPay(l, o, ts) ==
    /\ Admits(l)
    /\ useSupabase
    /\ payments' = UpdatePayment(o, PaymentStatusOf(ts))
    /\ Spawn(l, Task("webhook", "ord", o, 0, ts, FALSE, FALSE, 0, 0))
    /\ UNCHANGED <<now, useSupabase, orders, stock, stock0, stockLogs, dispenseLogs,
                   published>>

\* a webhook request whose signature_key is missing or wrong: signature_key is
\* taken from the body and never read, the request is served like any other
UnsignedWebhook(l, o, ts) ==
    \/ WebhookTxn(l, o, ts)
    \/ WebhookPay(l, o, ts)

\* a PAID order is verified again like a PENDING one
VerifyBranchRepeating(status) ==
    IF status \notin {"PENDING", "PAID"} THEN "reject" ELSE "update"

\* verify after its SELECT: 400 unless PENDING or PAID, success at once if PAID
VerifyBranch(status) ==
    IF status \notin {"PENDING", "PAID"} THEN "reject"
    ELSE IF status = "PAID" THEN "paid"
    ELSE "update"

\* verify: SELECT the order; only a PENDING order goes on to the updates
VerifyRead(l, o, st) ==
    /\ Admits(l)
    /\ Exists(o)
    /\ VerifyBranch(orders[o].status) = "update"
    /\ Spawn(l, Task("verify", IF useSupabase THEN "pay" ELSE "txn", o, 0, st,
                  FALSE, FALSE, 0, 0))
    /\ UNCHANGED <<now, useSupabase, orders, payments, stock, stock0, stockLogs,
                   dispenseLogs, published>>

\* verify: SELECT the order and find it PAID already
VerifyPaidRead(l, o, st) ==
    /\ Admits(l)
    /\ Exists(o)
    /\ VerifyBranch(orders[o].status) = "paid"
    /\ Spawn(l, Task("verify", "paid", o, 0, st, FALSE, FALSE, 0, 0))
    /\ UNCHANGED <<now, useSupabase, orders, payments, stock, stock0, stockLogs,
                   dispenseLogs, published>>

\* verify: "Order already verified and paid", nothing written
VerifyPaidRespond(l) ==
    LET t == tasks[l] IN
    /\ t.kind = "verify" /\ t.pc = "paid"
    /\ Finish(l)
    /\ UNCHANGED <<now, useSupabase, orders, payments, stock, stock0, stockLogs,
                   dispenseLogs, published>>

\* verify, MySQL: db.transaction updates payment and order together
VerifyTxn(l) ==
    LET t == tasks[l] IN
    /\ t.kind = "verify" /\ t.pc = "txn"
    /\ payments' = UpdatePayment(t.o, TaskPaymentStatus(t))
    /\ orders' = UpdateOrderMysql(t.o, TaskOrderStatus(t), TaskPaymentStatus(t))
    /\ IF TaskPaymentStatus(t) = "SUCCESS" THEN Goto(l, "post") ELSE Finish(l)
    /\ UNCHANGED <<now, useSupabase, stock, stock0, stockLogs, dispenseLogs, published>>

\* verify, Supabase: the payment update alone
VerifyPay(l) ==
    LET t == tasks[l] IN
    /\ t.kind = "verify" /\ t.pc = "pay"
    /\ payments' = UpdatePayment(t.o, TaskPaymentStatus(t))
    /\ Goto(l, "ord")
    /\ UNCHANGED <<now, useSupabase, orders, stock, stock0, stockLogs, dispenseLogs,
                   published>>

\* webhook and verify, Supabase: the order update alone
PaymentOrderUpdate(l) ==
    LET t == tasks[l] IN
    /\ t.kind \in {"webhook", "verify"} /\ t.pc = "ord"
    /\ orders' = UpdateOrderSupabase(t.o, TaskOrderStatus(t), TaskPaymentStatus(t))
    /\ IF TaskPaymentStatus(t) = "SUCCESS" THEN Goto(l, "post") ELSE Finish(l)
    /\ UNCHANGED <<now, useSupabase, payments, stock, stock0, stockLogs, dispenseLogs,
                   published>>

\* webhook and verify, Supabase: the order update returns an error, which is
\* logged; the handler goes on as if the order had been written
PaymentOrderUpdateFails(l) ==
    LET t == tasks[l] IN
    /\ t.kind \in {"webhook", "verify"} /\ t.pc = "ord"
    /\ IF TaskPaymentStatus(t) = "SUCCESS" THEN Goto(l, "post") ELSE Finish(l)
    /\ UNCHANGED <<now, useSupabase, orders, payments, stock, stock0, stockLogs,
                   dispenseLogs, published>>

\* debug update-payment: two separate updates in both back ends
DebugPay(l, o, st) ==
    /\ Admits(l)
    /\ payments' = UpdatePayment(o, st)
    /\ Spawn(l, Task("debug", "ord", o, 0, st, FALSE, FALSE, 0, 0))
    /\ UNCHANGED <<now, useSupabase, orders, stock, stock0, stockLogs, dispenseLogs,
                   published>>

DebugOrder(l) ==
    LET t == tasks[l] IN
    /\ t.kind = "debug" /\ t.pc = "ord"
    /\ orders' = IF useSupabase
                 THEN UpdateOrderSupabase(t.o, TaskOrderStatus(t), t.inp)
                 ELSE UpdateOrderMysql(t.o, TaskOrderStatus(t), t.inp)
    /\ Finish(l)
    /\ UNCHANGED <<now, useSupabase, payments, stock, stock0, stockLogs, dispenseLogs,
                   published>>

\* ------------------------------------------------------------ dispense trigger
OrderSlot(o) == orders[o].slot_id
Nested(t) == t.kind \in {"webhook", "verify"}

\* the order is found whatever its status
TriggerableAnyStatus(o) == Exists(o)

\* SELECT ... FROM orders o ... WHERE o.id = ? AND o.status = 'PAID' finds a row
Triggerable(o) == Exists(o) /\ orders[o].status = "PAID"

\* axios.post to /api/dispense/trigger fails before the request is served
PostFail(l) ==
    LET t == tasks[l] IN
    /\ Nested(t) /\ t.pc = "post"
    /\ Goto(l, "catch")
    /\ UNCHANGED <<now, useSupabase, orders, payments, stock, stock0, stockLogs,
                   dispenseLogs, published>>

\* SELECT * FROM order_items WHERE order_id = ?: items && items.length > 0
HasMultipleItems(o) == orders[o].items # {}

\* trigger, called from webhook/verify for an order without order_items:
\* SELECT ... WHERE id = ? AND status = 'PAID'
TriggerSelect(l) ==
    LET t == tasks[l] IN
    /\ Nested(t) /\ t.pc = "post"
    /\ ~HasMultipleItems(t.o)
    /\ IF Triggerable(t.o)
       THEN Replace(l, [t EXCEPT !.pc = "t_update", !.s = OrderSlot(t.o)])
       ELSE Goto(l, "catch")
    /\ UNCHANGED <<now, useSupabase, orders, payments, stock, stock0, stockLogs,
                   dispenseLogs, published>>

\* trigger, called directly: an order that is missing or not PAID gets 404
StartTrigger(l, o) ==
    /\ Admits(l)
    /\ Triggerable(o)
    /\ Spawn(l, Task("trigger", "t_update", o, OrderSlot(o), "", FALSE, FALSE, 0, 0))
    /\ UNCHANGED <<now, useSupabase, orders, payments, stock, stock0, stockLogs,
                   dispenseLogs, published>>

\* UPDATE orders SET status = 'DISPENSING' WHERE id = ?
TriggerUpdate(l) ==
    LET t == tasks[l] IN
    /\ t.pc = "t_update"
    /\ orders' = IF Exists(t.o) THEN [orders EXCEPT ![t.o].status = "DISPENSING"]
                 ELSE orders
    /\ Goto(l, "t_insert")
    /\ UNCHANGED <<now, useSupabase, payments, stock, stock0, stockLogs, dispenseLogs,
                   published>>

OpenAttempt(o, sn) ==
    [order_id |-> o, slot_number |-> sn, completed_at |-> NULL,
     success |-> FALSE, drop_detected |-> FALSE]

\* one open dispense log row per item slot, in slot order
RECURSIVE ItemAttempts(_, _)
ItemAttempts(o, slots) ==
    IF slots = {} THEN <<>>
    ELSE LET s == CHOOSE x \in slots : \A y \in slots : x <= y
         IN  <<OpenAttempt(o, s)>> \o ItemAttempts(o, slots \ {s})

\* INSERT INTO dispense_logs, then publishDispenseCommand and the response;
\* timedOut: the caller's axios timeout fires although the trigger took effect
TriggerInsert(l, timedOut) ==
    LET t == tasks[l] IN
    /\ t.pc = "t_insert"
    /\ timedOut => Nested(t)
    /\ Len(dispenseLogs) < MaxDispenseLogs
    /\ dispenseLogs' = Append(dispenseLogs, OpenAttempt(t.o, t.s))
    /\ published' = [published EXCEPT ![t.o] = @ + 1]
    /\ IF timedOut THEN Goto(l, "catch") ELSE Finish(l)
    /\ UNCHANGED <<now, useSupabase, orders, payments, stock, stock0, stockLogs>>

\* the device channel is down: publishDispenseCommand returns false, the
\* trigger logs a warning and answers as if the command had been sent
TriggerInsertUnsent(l) ==
    LET t == tasks[l] IN
    /\ t.pc = "t_insert"
    /\ Len(dispenseLogs) < MaxDispenseLogs
    /\ dispenseLogs' = Append(dispenseLogs, OpenAttempt(t.o, t.s))
    /\ Finish(l)
    /\ UNCHANGED <<now, useSupabase, orders, payments, stock, stock0, stockLogs,
                   published>>

\* the payment is taken back: order PENDING again, paid_at cleared
PaymentRolledBack(o) ==
    IF Exists(o)
    THEN [orders EXCEPT ![o].status = "PENDING", ![o].paid_at = NULL]
    ELSE orders

\* UPDATE orders SET status = 'PENDING_DISPENSE', notes = ? WHERE id = ?
PendingDispense(o) ==
    IF Exists(o)
    THEN [orders EXCEPT ![o].status = "PENDING_DISPENSE", ![o].notes = "dispense failed"]
    ELSE orders

\* catch (dispenseError) of webhook and verify
DispenseErrorCatch(l) ==
    LET t == tasks[l] IN
    /\ Nested(t) /\ t.pc = "catch"
    /\ orders' = PendingDispense(t.o)
    /\ Finish(l)
    /\ UNCHANGED <<now, useSupabase, payments, stock, stock0, stockLogs, dispenseLogs,
                   published>>

\* /api/dispense/multi, called from webhook/verify for an order with order_items:
\* a PAID order goes DISPENSING with one dispense log row and one command per item
MultiDispense(l) ==
    LET t == tasks[l]
        slots == orders[t.o].items
    IN  /\ Nested(t) /\ t.pc = "post"
        /\ HasMultipleItems(t.o)
        /\ IF Triggerable(t.o)
           THEN /\ Len(dispenseLogs) + Cardinality(slots) <= MaxDispenseLogs
                /\ orders' = [orders EXCEPT ![t.o].status = "DISPENSING"]
                /\ dispenseLogs' = dispenseLogs \o ItemAttempts(t.o, slots)
                /\ published' = [published EXCEPT ![t.o] = @ + Cardinality(slots)]
                /\ Finish(l)
           ELSE /\ Goto(l, "catch")
                /\ UNCHANGED <<orders, dispenseLogs, published>>
        /\ UNCHANGED <<now, useSupabase, payments, stock, stock0, stockLogs>>

\* ------------------------------------------------------------ dispense confirm
\* UPDATE dispense_logs SET completed_at = NOW(), success = ?, drop_detected = ?
\* WHERE order_id = ? AND slot_number = ?
CloseAttempts(o, sn, ok, drop) ==
    [i \in 1..Len(dispenseLogs) |->
        IF dispenseLogs[i].order_id = o /\ dispenseLogs[i].slot_number = sn
        THEN [dispenseLogs[i] EXCEPT !.completed_at = now, !.success = ok,
                                     !.drop_detected = drop]
        ELSE dispenseLogs[i]]

\* the drop sensor is not consulted
DroppedIgnoringSensor(ok, drop) == ok

\* success && drop_detected
Dropped(ok, drop) == ok /\ drop

\* order_status of a confirmation
OutcomeStatus(ok, drop) == IF Dropped(ok, drop) THEN "COMPLETED" ELSE "FAILED"

\* POST /dispense/confirm: the dispense log update
ConfirmLog(l, o, sn, ok, drop) ==
    /\ Admits(l)
    /\ dispenseLogs' = CloseAttempts(o, sn, ok, drop)
    /\ Spawn(l, Task("confirm",
                  IF Dropped(ok, drop)
                  THEN (IF useSupabase THEN "c_read" ELSE "c_stock")
                  ELSE "c_order",
                  o, sn, "", ok, drop, 0, 0))
    /\ UNCHANGED <<now, useSupabase, orders, payments, stock, stock0, stockLogs,
                   published>>

\* MQTT dispense_result: the dispense log update
MqttLog(l, o, sn, ok, drop) ==
    /\ Admits(l)
    /\ dispenseLogs' = CloseAttempts(o, sn, ok, drop)
    /\ Spawn(l, Task("mqtt", IF Dropped(ok, drop) THEN "c_stock" ELSE "c_order",
                  o, sn, "", ok, drop, 0, 0))
    /\ UNCHANGED <<now, useSupabase, orders, payments, stock, stock0, stockLogs,
                   published>>

\* confirm, Supabase: select the order with its slot
ConfirmRead(l) ==
    LET t == tasks[l] IN
    /\ t.kind = "confirm" /\ t.pc = "c_read"
    /\ IF Exists(t.o)
       THEN Replace(l, [t EXCEPT !.pc = "c_stock", !.loc = stock[OrderSlot(t.o)]])
       ELSE Goto(l, "c_order")
    /\ UNCHANGED <<now, useSupabase, orders, payments, stock, stock0, stockLogs,
                   dispenseLogs, published>>

\* one unit leaves the slot whatever the order's quantity
DecrementedByOne(t) == stock[OrderSlot(t.o)] - 1

\* the stock a completed dispense writes to the order's slot
DecrementedStock(t) ==
    CASE t.kind = "mqtt" -> Max(0, stock[OrderSlot(t.o)] - orders[t.o].quantity)
      [] t.kind = "confirm" /\ useSupabase -> t.loc - orders[t.o].quantity
      [] OTHER -> stock[OrderSlot(t.o)] - orders[t.o].quantity

ConfirmStock(l) ==
    LET t == tasks[l] IN
    /\ t.kind \in {"confirm", "mqtt"} /\ t.pc = "c_stock"
    /\ stock' = IF Exists(t.o)
                THEN [stock EXCEPT ![OrderSlot(t.o)] = DecrementedStock(t)]
                ELSE stock
    /\ Goto(l, "c_slog")
    /\ UNCHANGED <<now, useSupabase, orders, payments, stock0, stockLogs,
                   dispenseLogs, published>>

StockLogEntry(s, ct, before, after, change, o) ==
    [slot_id |-> s, change_type |-> ct, quantity_before |-> before,
     quantity_after |-> after, quantity_change |-> change, order_id |-> o]

\* the DISPENSE row: MySQL derives it from the slot as it is at insert time,
\* Supabase from the stock it read before its update
DispenseEntry(t) ==
    IF t.kind = "confirm" /\ useSupabase
    THEN StockLogEntry(OrderSlot(t.o), "DISPENSE", t.loc,
                       t.loc - orders[t.o].quantity, 0 - orders[t.o].quantity, t.o)
    ELSE StockLogEntry(OrderSlot(t.o), "DISPENSE",
                       stock[OrderSlot(t.o)] + orders[t.o].quantity,
                       stock[OrderSlot(t.o)], 0 - orders[t.o].quantity, t.o)

ConfirmStockLog(l) ==
    LET t == tasks[l] IN
    /\ t.kind \in {"confirm", "mqtt"} /\ t.pc = "c_slog"
    /\ IF Exists(t.o)
       THEN /\ Len(stockLogs) < MaxStockLogs
            /\ stockLogs' = Append(stockLogs, DispenseEntry(t))
       ELSE UNCHANGED stockLogs
    /\ Goto(l, "c_order")
    /\ UNCHANGED <<now, useSupabase, orders, payments, stock, stock0, dispenseLogs,
                   published>>

\* UPDATE orders SET status = ?, dispensed_at = NOW() | NULL WHERE id = ?
\* (Supabase writes dispensed_at only when COMPLETED)
ConfirmOrder(l) ==
    LET t == tasks[l] IN
    /\ t.kind \in {"confirm", "mqtt"} /\ t.pc = "c_order"
    /\ orders' =
         IF ~Exists(t.o) THEN orders
         ELSE [orders EXCEPT
                 ![t.o].status = OutcomeStatus(t.ok, t.drop),
                 ![t.o].dispensed_at =
                     IF Dropped(t.ok, t.drop) THEN now
                     ELSE IF t.kind = "confirm" /\ useSupabase THEN @ ELSE NULL]
    /\ Finish(l)
    /\ UNCHANGED <<now, useSupabase, payments, stock, stock0, stockLogs, dispenseLogs,
                   published>>

\* ------------------------------------------------------------ stock ledger
\* only full and empty are told apart
EstimatedStockCoarse(level) ==
    IF level \in {"FULL", "HIGH", "MEDIUM"} THEN FullStock ELSE EmptyStock

\* switch (slot.level.toUpperCase()), estimatedStock starting at 0
EstimatedStock(level) ==
    CASE level = "FULL" -> FullStock
      [] level = "HIGH" -> HighStock
      [] level = "MEDIUM" -> MediumStock
      [] level = "LOW" -> LowStock
      [] level = "EMPTY" -> EmptyStock
      [] OTHER -> 0

\* MQTT telemetry with one slot entry {id, level}:
\* UPDATE slots SET current_stock = ? WHERE machine_id = ? AND slot_number = ?
Telemetry(l, s, level) ==
    /\ Admits(l)
    /\ stock' = [stock EXCEPT ![s] = EstimatedStock(level)]
    /\ UNCHANGED <<now, useSupabase, orders, payments, stock0, stockLogs, dispenseLogs,
                   published, tasks>>

\* every change type sets the quantity given as the new stock
QuantityAfterAbsolute(ct, before, quantity, capacity) ==
    Min(Max(quantity, 0), capacity)

\* quantity_after of POST /stock/update
QuantityAfter(ct, before, quantity, capacity) ==
    CASE ct = "RESTOCK" -> Min(before + quantity, capacity)
      [] ct = "MANUAL_ADJUST" -> Min(Max(quantity, 0), capacity)
      [] ct = "AUDIT" -> Min(Max(quantity, 0), capacity)
      [] OTHER -> quantity

\* POST /stock/update: SELECT the slot, keep quantity_before
UpdateRead(l, s, quantity, ct) ==
    /\ Admits(l)
    /\ Spawn(l, Task("update", "u_txn", 0, s, ct, FALSE, FALSE, quantity, stock[s]))
    /\ UNCHANGED <<now, useSupabase, orders, payments, stock, stock0, stockLogs,
                   dispenseLogs, published>>

\* POST /stock/update: db.transaction writes the slot and the stock log
UpdateTxn(l) ==
    LET t == tasks[l] IN
    /\ t.kind = "update" /\ t.pc = "u_txn"
    /\ Len(stockLogs) < MaxStockLogs
    /\ LET after == QuantityAfter(t.inp, t.loc, t.n, Capacity(t.s))
       IN  /\ stock' = [stock EXCEPT ![t.s] = after]
           /\ stockLogs' = Append(stockLogs,
                  StockLogEntry(t.s, t.inp, t.loc, after, after - t.loc, 0))
    /\ Finish(l)
    /\ UNCHANGED <<now, useSupabase, orders, payments, stock0, dispenseLogs, published>>

\* ------------------------------------------------------------ order ledger
\* the status of the order is not looked at
ExpiredAnyStatus(o) == now > orders[o].expires_at

\* orderInfo.status === "PENDING" && moment().isAfter(orderInfo.expires_at)
Expired(o) == orders[o].status = "PENDING" /\ now > orders[o].expires_at

\* GET /orders/:order_id: SELECT the order; an expired one goes on to the update
StatusRead(l, o) ==
    /\ Admits(l)
    /\ Exists(o)
    /\ Expired(o)
    /\ Spawn(l, Task("status", "g_expire", o, 0, "", FALSE, FALSE, 0, 0))
    /\ UNCHANGED <<now, useSupabase, orders, payments, stock, stock0, stockLogs,
                   dispenseLogs, published>>

\* GET /orders/:order_id: SELECT the order; one that has not expired is reported
StatusPeek(l, o) ==
    /\ Admits(l)
    /\ Exists(o)
    /\ ~Expired(o)
    /\ Spawn(l, Task("status", "g_respond", o, 0, "", FALSE, FALSE, 0, 0))
    /\ UNCHANGED <<now, useSupabase, orders, payments, stock, stock0, stockLogs,
                   dispenseLogs, published>>

\* res.json({...orderInfo}), nothing written
StatusRespond(l) ==
    LET t == tasks[l] IN
    /\ t.kind = "status" /\ t.pc = "g_respond"
    /\ Finish(l)
    /\ UNCHANGED <<now, useSupabase, orders, payments, stock, stock0, stockLogs,
                   dispenseLogs, published>>

\* UPDATE orders SET status = "FAILED" WHERE id = ?
StatusExpire(l) ==
    LET t == tasks[l] IN
    /\ t.kind = "status" /\ t.pc = "g_expire"
    /\ orders' = IF Exists(t.o) THEN [orders EXCEPT ![t.o].status = "FAILED"]
                 ELSE orders
    /\ Finish(l)
    /\ UNCHANGED <<now, useSupabase, payments, stock, stock0, stockLogs, dispenseLogs,
                   published>>

\* the override is not looked at
UnitPriceBase(s) == Price(s)

\* price_override || price
UnitPrice(s) == IF PriceOverride(s) # 0 THEN PriceOverride(s) ELSE Price(s)

FreeOrderIds == {o \in OrderIds : ~Exists(o)}
Creating == {k \in Lanes : tasks[k].kind = "create" /\ tasks[k].pc = "cr_order"}

\* slots.current_stock as POST /orders reads it
SlotStock(s) == IF s \in SlotIds THEN stock[s] ELSE InitialStock(s)

\* the stock is not checked
CreateOutcomeUnchecked(s, quantity) ==
    IF ~SlotActive(s) THEN "Slot not found or inactive"
    ELSE IF ~ProductActive(s) THEN "Product is not active"
    ELSE "created"

\* POST /orders after its SELECT: 404, 400, 400 or the order is created
CreateOutcome(s, quantity) ==
    IF ~SlotActive(s) THEN "Slot not found or inactive"
    ELSE IF SlotStock(s) < quantity THEN "Insufficient stock"
    ELSE IF ~ProductActive(s) THEN "Product is not active"
    ELSE "created"

\* POST /orders: the SELECT finds no active slot, too little stock or an
\* inactive product
CreateRefuse(l, s, quantity) ==
    /\ Admits(l)
    /\ CreateOutcome(s, quantity) # "created"
    /\ Spawn(l, Task("create", "cr_error", 0, s, CreateOutcome(s, quantity),
                  FALSE, FALSE, quantity, 0))
    /\ UNCHANGED <<now, useSupabase, orders, payments, stock, stock0, stockLogs,
                   dispenseLogs, published>>

\* res.status(404 | 400).json({error}), nothing written
CreateError(l) ==
    LET t == tasks[l] IN
    /\ t.kind = "create" /\ t.pc = "cr_error"
    /\ Finish(l)
    /\ UNCHANGED <<now, useSupabase, orders, payments, stock, stock0, stockLogs,
                   dispenseLogs, published>>

\* POST /orders: SELECT the active slot with its product, check stock and product
CreateRead(l, s, quantity) ==
    /\ Admits(l)
    /\ Cardinality(FreeOrderIds) > Cardinality(Creating)
    /\ CreateOutcome(s, quantity) = "created"
    /\ Spawn(l, Task("create", "cr_order", 0, s, "", FALSE, FALSE, quantity,
                  UnitPrice(s) * quantity))
    /\ UNCHANGED <<now, useSupabase, orders, payments, stock, stock0, stockLogs,
                   dispenseLogs, published>>

\* INSERT INTO orders under a fresh id, status PENDING, expiry 15 minutes ahead
CreateOrderRow(l) ==
    LET t == tasks[l] IN
    /\ t.kind = "create" /\ t.pc = "cr_order"
    /\ \E o \in FreeOrderIds :
          /\ orders' = [orders EXCEPT ![o] =
                 [status |-> "PENDING", slot_id |-> t.s, quantity |-> t.n,
                  total_amount |-> t.loc, expires_at |-> now + ExpiryMinutes,
                  paid_at |-> NULL, dispensed_at |-> NULL, notes |-> "NULL",
                  items |-> {}]]
          /\ Replace(l, [t EXCEPT !.pc = "cr_pay", !.o = o])
    /\ UNCHANGED <<now, useSupabase, payments, stock, stock0, stockLogs, dispenseLogs,
                   published>>

\* INSERT INTO payments for the new order, status PENDING
CreatePayment(l) ==
    LET t == tasks[l] IN
    /\ t.kind = "create" /\ t.pc = "cr_pay"
    /\ payments' = [payments EXCEPT ![t.o] =
           [status |-> "PENDING", amount |-> t.loc, processed_at |-> NULL]]
    /\ Finish(l)
    /\ UNCHANGED <<now, useSupabase, orders, stock, stock0, stockLogs, dispenseLogs,
                   published>>

\* sum of the line totals of one unit from each slot
RECURSIVE LineTotals(_)
LineTotals(slots) ==
    IF slots = {} THEN 0
    ELSE LET s == CHOOSE x \in slots : TRUE
         IN  UnitPrice(s) + LineTotals(slots \ {s})

ItemSets == {slots \in SUBSET SlotIds : slots # {}}

\* POST /orders/multi with one unit from each of `slots`: the per-item checks of
\* POST /orders, then the order, its order_items and its payment in one unit
CreateMulti(l, slots) ==
    /\ Admits(l)
    /\ Cardinality(FreeOrderIds) > Cardinality(Creating)
    /\ \A s \in slots : SlotActive(s) /\ ~(stock[s] < 1) /\ ProductActive(s)
    /\ \E o \in FreeOrderIds :
          /\ orders' = [orders EXCEPT ![o] =
                 [status |-> "PENDING",
                  slot_id |-> CHOOSE x \in slots : \A y \in slots : x <= y,
                  quantity |-> 1, total_amount |-> LineTotals(slots),
                  expires_at |-> now + ExpiryMinutes,
                  paid_at |-> NULL, dispensed_at |-> NULL, notes |-> "NULL",
                  items |-> slots]]
          /\ payments' = [payments EXCEPT ![o] =
                 [status |-> "PENDING", amount |-> LineTotals(slots),
                  processed_at |-> NULL]]
    /\ UNCHANGED <<now, useSupabase, stock, stock0, stockLogs, dispenseLogs,
                   published, tasks>>

\* the INSERT INTO payments fails: the handler answers 500, the order row stays
CreatePaymentFails(l) ==
    LET t == tasks[l] IN
    /\ t.kind = "create" /\ t.pc = "cr_pay"
    /\ Finish(l)
    /\ UNCHANGED <<now, useSupabase, orders, payments, stock, stock0, stockLogs,
                   dispenseLogs, published>>

\* ------------------------------------------------------------ specification
\* one awaited call of the payment, dispense or order handler in lane l
LifecycleStep(l) ==
    \/ VerifyTxn(l)
    \/ VerifyPay(l)
    \/ PaymentOrderUpdate(l)
    \/ DebugOrder(l)
    \/ PostFail(l)
    \/ TriggerSelect(l)
    \/ TriggerUpdate(l)
    \/ \E timedOut \in BOOLEAN : TriggerInsert(l, timedOut)
    \/ DispenseErrorCatch(l)
    \/ ConfirmRead(l)
    \/ ConfirmStock(l)
    \/ ConfirmStockLog(l)
    \/ ConfirmOrder(l)
    \/ StatusExpire(l)
    \/ CreateOrderRow(l)
    \/ CreatePayment(l)

\* a payment, dispense or order request admitted into lane l
LifecycleRequest(l) ==
    \/ \E o \in OrderIds, ts \in TransactionStatuses : WebhookTxn(l, o, ts)
    \/ \E o \in OrderIds, ts \in TransactionStatuses : WebhookPay(l, o, ts)
    \/ \E o \in OrderIds, st \in VerifyStatuses : VerifyRead(l, o, st)
    \/ \E o \in OrderIds, st \in DebugStatuses : DebugPay(l, o, st)
    \/ \E o \in OrderIds : StartTrigger(l, o)
    \/ \E o \in OrderIds, sn \in SlotIds, ok \in BOOLEAN, drop \in BOOLEAN :
          ConfirmLog(l, o, sn, ok, drop)
    \/ \E o \in OrderIds, sn \in SlotIds, ok \in BOOLEAN, drop \in BOOLEAN :
          MqttLog(l, o, sn, ok, drop)
    \/ \E o \in OrderIds : StatusRead(l, o)
    \/ \E s \in SlotIds, q \in OrderQuantities : CreateRead(l, s, q)

\* the order lifecycle, one request served at a time
Next ==
    \/ Tick
    \/ \E l \in OneLane : LifecycleRequest(l)
    \/ \E l \in OneLane : LifecycleStep(l)

Spec == Init /\ [][Next]_vars

\* ------------------------------------------------------------ stock ledger runs
LedgerStep(l) ==
    \/ ConfirmRead(l)
    \/ ConfirmStock(l)
    \/ ConfirmStockLog(l)
    \/ ConfirmOrder(l)
    \/ UpdateTxn(l)
    \/ CreateOrderRow(l)
    \/ CreatePayment(l)

LedgerRequest(l) ==
    \/ \E o \in OrderIds, sn \in SlotIds, ok \in BOOLEAN, drop \in BOOLEAN :
          ConfirmLog(l, o, sn, ok, drop)
    \/ \E o \in OrderIds, sn \in SlotIds, ok \in BOOLEAN, drop \in BOOLEAN :
          MqttLog(l, o, sn, ok, drop)
    \/ \E s \in SlotIds, level \in Levels : Telemetry(l, s, level)
    \/ \E s \in SlotIds, q \in UpdateQuantities, ct \in ChangeTypes :
          UpdateRead(l, s, q, ct)
    \/ \E s \in SlotIds, q \in OrderQuantities : CreateRead(l, s, q)

\* the three writers of current_stock, one request served at a time
NextStock ==
    \/ \E l \in OneLane : LedgerRequest(l)
    \/ \E l \in OneLane : LedgerStep(l)

SpecStock == Init /\ [][NextStock]_vars

\* ------------------------------------------------------------ scenarios
Idle == \A l \in Lanes : tasks[l] = NoTask

\* the gateway notifies a settlement for order o
Settlement(l, o) ==
    \/ WebhookTxn(l, o, "settlement")
    \/ WebhookPay(l, o, "settlement")

\* dispense_logs rows of order o
AttemptsOf(o) == {i \in 1..Len(dispenseLogs) : dispenseLogs[i].order_id = o}
OpenAttemptsOf(o) == {i \in AttemptsOf(o) : dispenseLogs[i].completed_at = NULL}

\* the device answers a dispense command it received for order o
DeviceResult(l, o, ok, drop) ==
    /\ Exists(o)
    /\ OpenAttemptsOf(o) # {}
    /\ \/ ConfirmLog(l, o, OrderSlot(o), ok, drop)
       \/ MqttLog(l, o, OrderSlot(o), ok, drop)

\* the device delivers a result for an attempt of order o, open or closed
DeviceRedelivery(l, o, ok, drop) ==
    /\ Exists(o)
    /\ AttemptsOf(o) # {}
    /\ \/ ConfirmLog(l, o, OrderSlot(o), ok, drop)
       \/ MqttLog(l, o, OrderSlot(o), ok, drop)

CreateStep(l) ==
    \/ \E s \in SlotIds, q \in OrderQuantities : CreateRead(l, s, q)
    \/ CreateOrderRow(l)
    \/ CreatePayment(l)

\* the trigger request made by webhook or verify, served without a fault
TriggerStep(l) ==
    \/ TriggerSelect(l)
    \/ TriggerUpdate(l)
    \/ TriggerInsert(l, FALSE)

ConfirmStep(l) ==
    \/ ConfirmRead(l)
    \/ ConfirmStock(l)
    \/ ConfirmStockLog(l)
    \/ ConfirmOrder(l)

\* -- happy path: create, settlement, trigger, confirm(success, drop detected)
InitHappy ==
    /\ stock0 \in [SlotIds -> 0..MaxInitialStock]
    /\ InitTables

SettlePending(l) ==
    \E o \in OrderIds :
       /\ orders[o].status = "PENDING"
       /\ payments[o].status = "PENDING"
       /\ Settlement(l, o)

DeviceDropped(l) == \E o \in OrderIds : DeviceResult(l, o, TRUE, TRUE)

NextHappy ==
    \E l \in OneLane :
       \/ CreateStep(l)
       \/ SettlePending(l)
       \/ PaymentOrderUpdate(l)
       \/ TriggerStep(l)
       \/ DeviceDropped(l)
       \/ ConfirmStep(l)

SpecHappy == InitHappy /\ [][NextHappy]_vars

\* -- the gateway repeats its settlement notification
SettleAgain(l) == \E o \in OrderIds : payments[o].status # "NONE" /\ Settlement(l, o)

NextReplay ==
    \E l \in OneLane :
       \/ CreateStep(l)
       \/ SettleAgain(l)
       \/ PaymentOrderUpdate(l)
       \/ TriggerStep(l)
       \/ DeviceDropped(l)
       \/ ConfirmStep(l)

SpecReplay == InitHappy /\ [][NextReplay]_vars

\* -- the device repeats its result
DeviceRepeats(l) ==
    \E o \in OrderIds, ok \in BOOLEAN, drop \in BOOLEAN : DeviceRedelivery(l, o, ok, drop)

NextRedeliver ==
    \E l \in OneLane :
       \/ CreateStep(l)
       \/ SettlePending(l)
       \/ PaymentOrderUpdate(l)
       \/ TriggerStep(l)
       \/ DeviceRepeats(l)
       \/ ConfirmStep(l)

SpecRedeliver == InitHappy /\ [][NextRedeliver]_vars

\* -- an order expires unpaid and the payment arrives late
VerifySuccess(l) == \E o \in OrderIds : VerifyRead(l, o, "SUCCESS")

VerifyStep(l) ==
    \/ VerifyTxn(l)
    \/ VerifyPay(l)

StatusStep(l) ==
    \/ \E o \in OrderIds : StatusRead(l, o)
    \/ StatusExpire(l)

NextExpiry ==
    \/ Tick
    \/ \E l \in OneLane :
          \/ CreateStep(l)
          \/ StatusStep(l)
          \/ SettleAgain(l)
          \/ VerifySuccess(l)
          \/ VerifyStep(l)
          \/ PaymentOrderUpdate(l)
          \/ TriggerStep(l)

SpecExpiry == InitHappy /\ [][NextExpiry]_vars

\* -- one settlement webhook and one verify(SUCCESS) race for a PENDING order
Running(kind) == \E l \in Lanes : tasks[l].kind = kind

WebhookOnce(l) ==
    \E o \in OrderIds :
       /\ orders[o].status = "PENDING"
       /\ payments[o].status = "PENDING"
       /\ ~Running("webhook")
       /\ Settlement(l, o)

VerifyOnce(l) ==
    \E o \in OrderIds :
       /\ payments[o].status # "NONE"
       /\ ~Running("verify")
       /\ VerifyRead(l, o, "SUCCESS")

NextRace ==
    \E l \in Lanes :
       \/ CreateStep(l)
       \/ WebhookOnce(l)
       \/ VerifyOnce(l)
       \/ VerifyStep(l)
       \/ PaymentOrderUpdate(l)
       \/ TriggerStep(l)
       \/ DispenseErrorCatch(l)

SpecRace == Init /\ [][NextRace]_vars

\* -- the dispense trigger fails after the payment was recorded
VerifyPending(l) ==
    \E o \in OrderIds, st \in VerifyStatuses :
       payments[o].status # "NONE" /\ VerifyRead(l, o, st)

TriggerFault(l) ==
    \/ PostFail(l)
    \/ TriggerInsert(l, TRUE)
    \/ TriggerInsertUnsent(l)
    \/ DispenseErrorCatch(l)

NextOutage ==
    \E l \in OneLane :
       \/ CreateStep(l)
       \/ SettlePending(l)
       \/ VerifyPending(l)
       \/ VerifyStep(l)
       \/ PaymentOrderUpdate(l)
       \/ TriggerStep(l)
       \/ TriggerFault(l)

SpecOutage == InitHappy /\ [][NextOutage]_vars

\* -- the device never answers: what the backend does on its own
Heartbeat(l) == \E s \in SlotIds, level \in Levels : Telemetry(l, s, level)

NextSilent ==
    \/ Tick
    \/ \E l \in OneLane :
          \/ CreateStep(l)
          \/ SettlePending(l)
          \/ PaymentOrderUpdate(l)
          \/ TriggerStep(l)
          \/ StatusStep(l)
          \/ Heartbeat(l)

\* the event loop runs every continuation and request that is ready
SpecSilent == InitHappy /\ [][NextSilent]_vars /\ WF_vars(NextSilent)

\* -- one gateway signal, good or bad, for a PENDING order
GatewayStatuses == {"settlement", "deny", "cancel", "expire"}

SignalPending(l) ==
    \E o \in OrderIds, ts \in GatewayStatuses :
       /\ orders[o].status = "PENDING"
       /\ payments[o].status = "PENDING"
       /\ \/ WebhookTxn(l, o, ts)
          \/ WebhookPay(l, o, ts)

VerifyUnpaid(l) ==
    \E o \in OrderIds, st \in VerifyStatuses :
       /\ payments[o].status = "PENDING"
       /\ VerifyRead(l, o, st)

NextDecline ==
    \E l \in OneLane :
       \/ CreateStep(l)
       \/ SignalPending(l)
       \/ VerifyUnpaid(l)
       \/ VerifyStep(l)
       \/ PaymentOrderUpdate(l)
       \/ TriggerStep(l)

SpecDecline == InitHappy /\ [][NextDecline]_vars

\* -- payment signals keep arriving after the order was paid
SignalAgain(l) ==
    \E o \in OrderIds, ts \in TransactionStatuses :
       /\ payments[o].status # "NONE"
       /\ \/ WebhookTxn(l, o, ts)
          \/ WebhookPay(l, o, ts)

NextLateSignal ==
    \E l \in OneLane :
       \/ CreateStep(l)
       \/ SettlePending(l)
       \/ SignalAgain(l)
       \/ VerifyPending(l)
       \/ VerifyStep(l)
       \/ PaymentOrderUpdate(l)
       \/ TriggerStep(l)
       \/ PostFail(l)
       \/ DispenseErrorCatch(l)

SpecLateSignal == InitHappy /\ [][NextLateSignal]_vars

\* -- verify is called for orders that are PENDING or already PAID
ManualSuccess(l) ==
    \E o \in OrderIds :
       /\ orders[o].status = "PENDING"
       /\ payments[o].status = "PENDING"
       /\ DebugPay(l, o, "SUCCESS")

VerifyCall(l) ==
    \E o \in OrderIds, st \in VerifyStatuses :
       /\ payments[o].status # "NONE"
       /\ \/ VerifyRead(l, o, st)
          \/ VerifyPaidRead(l, o, st)

NextVerifyPaid ==
    \/ Tick
    \/ \E l \in OneLane :
          \/ CreateStep(l)
          \/ ManualSuccess(l)
          \/ DebugOrder(l)
          \/ VerifyCall(l)
          \/ VerifyPaidRespond(l)
          \/ VerifyStep(l)
          \/ PaymentOrderUpdate(l)
          \/ TriggerStep(l)

SpecVerifyPaid == InitHappy /\ [][NextVerifyPaid]_vars

\* -- the trigger route is called directly for orders in any status
ManualPay(l) ==
    \E o \in OrderIds, st \in DebugStatuses :
       payments[o].status # "NONE" /\ DebugPay(l, o, st)

TriggerCall(l) == \E o \in OrderIds : StartTrigger(l, o)

NextTrigger ==
    \E l \in OneLane :
       \/ CreateStep(l)
       \/ ManualPay(l)
       \/ DebugOrder(l)
       \/ TriggerCall(l)
       \/ TriggerUpdate(l)
       \/ TriggerInsert(l, FALSE)

SpecTrigger == InitHappy /\ [][NextTrigger]_vars

\* -- the device answers with any outcome while the gateway repeats its notification
DeviceAnswers(l) ==
    \E o \in OrderIds, ok \in BOOLEAN, drop \in BOOLEAN : DeviceResult(l, o, ok, drop)

NextRetry ==
    \E l \in OneLane :
       \/ CreateStep(l)
       \/ SettleAgain(l)
       \/ PaymentOrderUpdate(l)
       \/ TriggerStep(l)
       \/ DeviceAnswers(l)
       \/ ConfirmStep(l)

SpecRetry == InitHappy /\ [][NextRetry]_vars

\* -- an order with order_items is paid, dispensed per item and confirmed per slot
PlaceMulti(l) == \E slots \in ItemSets : CreateMulti(l, slots)

ItemResult(l) ==
    \E o \in OrderIds, sn \in SlotIds, ok \in BOOLEAN, drop \in BOOLEAN :
       /\ \E i \in OpenAttemptsOf(o) : dispenseLogs[i].slot_number = sn
       /\ \/ ConfirmLog(l, o, sn, ok, drop)
          \/ MqttLog(l, o, sn, ok, drop)

NextMulti ==
    \E l \in OneLane :
       \/ PlaceMulti(l)
       \/ SettlePending(l)
       \/ PaymentOrderUpdate(l)
       \/ MultiDispense(l)
       \/ ItemResult(l)
       \/ ConfirmStep(l)

SpecMulti == InitHappy /\ [][NextMulti]_vars

\* -- one manual stock update at a time while telemetry reports arrive
ManualUpdate(l) ==
    \E s \in SlotIds, q \in UpdateQuantities, ct \in ChangeTypes :
       /\ Len(stockLogs) < MaxStockLogs
       /\ UpdateRead(l, s, q, ct)

SensorLevels == {"LOW", "FULL"}

SensorReport(l) == \E s \in SlotIds, level \in SensorLevels : Telemetry(l, s, level)

NextManual ==
    \/ \E l \in OneLane : ManualUpdate(l)
    \/ \E l \in OneLane : UpdateTxn(l)
    \/ \E l \in Lanes : SensorReport(l)

SpecManual == Init /\ [][NextManual]_vars

\* -- dispense confirmations interleave with manual stock updates, no telemetry
NextLedger ==
    \E l \in Lanes :
       \/ CreateStep(l)
       \/ SettlePending(l)
       \/ PaymentOrderUpdate(l)
       \/ TriggerStep(l)
       \/ DeviceDropped(l)
       \/ ConfirmStep(l)
       \/ ManualUpdate(l)
       \/ UpdateTxn(l)

SpecLedger == Init /\ [][NextLedger]_vars

\* -- orders are placed on any slot of the catalog
PlaceOrder(l) ==
    \E s \in CatalogSlots, q \in OrderQuantities :
       \/ CreateRead(l, s, q)
       \/ CreateRefuse(l, s, q)

NextCreate ==
    \/ Tick
    \/ \E l \in OneLane :
          \/ PlaceOrder(l)
          \/ CreateError(l)
          \/ CreateOrderRow(l)
          \/ CreatePayment(l)

SpecCreate == InitHappy /\ [][NextCreate]_vars

\* -- the status of an order is read at any point of its life
StatusCall(l) ==
    \E o \in OrderIds :
       \/ StatusRead(l, o)
       \/ StatusPeek(l, o)

NextStatus ==
    \/ Tick
    \/ \E l \in OneLane :
          \/ CreateStep(l)
          \/ SettlePending(l)
          \/ PaymentOrderUpdate(l)
          \/ TriggerStep(l)
          \/ StatusCall(l)
          \/ StatusExpire(l)
          \/ StatusRespond(l)

SpecStatus == InitHappy /\ [][NextStatus]_vars

\* -- a status read of an expired order races the payment success
NextExpiryRace ==
    \/ Tick
    \/ \E l \in Lanes :
          \/ CreateStep(l)
          \/ SettlePending(l)
          \/ VerifyUnpaid(l)
          \/ VerifyStep(l)
          \/ PaymentOrderUpdate(l)
          \/ TriggerStep(l)
          \/ StatusStep(l)

SpecExpiryRace == Init /\ [][NextExpiryRace]_vars

\* -- single persistence writes fail
NextFault ==
    \E l \in OneLane :
       \/ CreateStep(l)
       \/ CreatePaymentFails(l)
       \/ SettlePending(l)
       \/ VerifyUnpaid(l)
       \/ VerifyStep(l)
       \/ PaymentOrderUpdate(l)
       \/ PaymentOrderUpdateFails(l)
       \/ TriggerStep(l)
       \/ DispenseErrorCatch(l)

SpecFault == InitHappy /\ [][NextFault]_vars

\* ------------------------------------------------------------ properties
Terminal == {"COMPLETED", "FAILED"}

\* lane l takes a step of a handler that works on order o
ActsFor(l, o) ==
    /\ tasks'[l] # tasks[l]
    /\ \/ tasks[l].kind # "idle" /\ tasks[l].o = o
       \/ tasks'[l].kind # "idle" /\ tasks'[l].o = o

\* C1: once an order is COMPLETED or FAILED, no step changes the order row or
\* its payment row, and no handler working on that order changes any stock
C1_TerminalImmutable ==
    [][\A o \in OrderIds :
          orders[o].status \in Terminal =>
             /\ orders'[o] = orders[o]
             /\ payments'[o] = payments[o]
             /\ \A l \in Lanes : ActsFor(l, o) => stock' = stock]_vars

Edges ==
    {<<"PENDING", "PAID">>, <<"PENDING", "FAILED">>, <<"PAID", "DISPENSING">>,
     <<"PAID", "PENDING_DISPENSE">>, <<"DISPENSING", "COMPLETED">>,
     <<"DISPENSING", "FAILED">>, <<"PENDING_DISPENSE", "DISPENSING">>}

\* C5: every change of the status of an existing order follows one of the edges
\* of the order state machine
C5_StatusEdges ==
    [][\A o \in OrderIds :
          (Exists(o) /\ orders'[o].status # orders[o].status) =>
             <<orders[o].status, orders'[o].status>> \in Edges]_vars

\* C6: a payment's status changes only from PENDING to SUCCESS or FAILED, and a
\* payment that is SUCCESS or FAILED keeps every field
C6_PaymentMonotone ==
    [][\A o \in OrderIds :
          /\ payments[o].status \in {"SUCCESS", "FAILED"} => payments'[o] = payments[o]
          /\ (payments[o].status = "PENDING" /\ payments'[o].status # "PENDING") =>
                payments'[o].status \in {"SUCCESS", "FAILED"}]_vars

IsConfirm(t) == t.kind \in {"confirm", "mqtt"}

\* C7: a confirmation (HTTP or MQTT) with success and no drop detected goes
\* straight to the order update, never writes stock or the stock log, and its
\* last step leaves the order FAILED
C7_NoDropFails ==
    [][\A l \in Lanes :
          LET t == tasks[l]
              u == tasks'[l]
          IN  /\ (t = NoTask /\ IsConfirm(u) /\ u.ok /\ ~u.drop) =>
                    /\ u.pc = "c_order"
                    /\ stock' = stock
                    /\ stockLogs' = stockLogs
              /\ (IsConfirm(t) /\ t.ok /\ ~t.drop /\ u # t) =>
                    /\ u = NoTask
                    /\ stock' = stock
                    /\ stockLogs' = stockLogs
                    /\ Exists(t.o) => orders'[t.o].status = "FAILED"]_vars

\* a DISPENSING order was confirmed with success and no drop: it is FAILED, the
\* attempt is closed with success and without drop, stock and stock log untouched
C7_Witness ==
    /\ \A l \in Lanes : tasks[l] = NoTask
    /\ \E o \in OrderIds :
          /\ orders[o].status = "FAILED"
          /\ payments[o].status = "SUCCESS"
          /\ \E i \in 1..Len(dispenseLogs) :
                /\ dispenseLogs[i].order_id = o
                /\ dispenseLogs[i].completed_at # NULL
                /\ dispenseLogs[i].success
                /\ ~dispenseLogs[i].drop_detected
    /\ stock = stock0
    /\ stockLogs = <<>>

\* C4: every slot's current_stock stays within 0..capacity
C4_StockInRange ==
    \A s \in SlotIds : 0 <= stock[s] /\ stock[s] <= Capacity(s)

\* DISPENSE rows of the stock log written for order o
DispenseEntriesOf(o) ==
    {i \in 1..Len(stockLogs) :
        stockLogs[i].change_type = "DISPENSE" /\ stockLogs[i].order_id = o}

\* C2: however often the settlement notification of an order is processed, with
\* device results in between, the order takes its quantity from its slot at
\* most once and writes at most one DISPENSE row
C2_WebhookIdempotent ==
    \A o \in OrderIds :
       Exists(o) =>
          /\ stock[OrderSlot(o)] >= stock0[OrderSlot(o)] - orders[o].quantity
          /\ Cardinality(DispenseEntriesOf(o)) <= 1

\* C3: when one settlement webhook and one verify(SUCCESS) race for a PENDING
\* order, at most one dispense log row is opened and one command published, the
\* order is never PENDING_DISPENSE, and once both have returned the order is
\* DISPENSING with exactly one command published
C3_SingleTrigger ==
    \A o \in OrderIds :
       /\ published[o] <= 1
       /\ Cardinality(AttemptsOf(o)) <= 1
       /\ orders[o].status # "PENDING_DISPENSE"
       /\ (Idle /\ payments[o].status = "SUCCESS") =>
             /\ orders[o].status = "DISPENSING"
             /\ published[o] = 1

\* C8: once the attempt of an order is closed and the order has its outcome, a
\* further device result for it changes neither the dispense log, the stock,
\* the stock log nor the order status
C8_ConfirmIdempotent ==
    [][\A o \in OrderIds :
          (/\ orders[o].status \in Terminal
           /\ AttemptsOf(o) # {}
           /\ OpenAttemptsOf(o) = {}) =>
             /\ dispenseLogs' = dispenseLogs
             /\ stock' = stock
             /\ stockLogs' = stockLogs
             /\ orders'[o].status = orders[o].status]_vars

\* C9: after create, settlement, trigger and confirm(success, drop detected) the
\* order is COMPLETED with payment SUCCESS, its slot holds s - q, the other
\* slots are untouched, and the stock log has exactly one DISPENSE row for the
\* order with quantity_before = s, quantity_after = s - q and change = -q
C9_HappyPath ==
    \A o \in OrderIds :
       orders[o].status = "COMPLETED" =>
          LET sl == OrderSlot(o)
              q == orders[o].quantity
              s == stock0[sl]
          IN  /\ s >= q
              /\ payments[o].status = "SUCCESS"
              /\ stock = [stock0 EXCEPT ![sl] = s - q]
              /\ Cardinality(DispenseEntriesOf(o)) = 1
              /\ \A i \in DispenseEntriesOf(o) :
                    /\ stockLogs[i].slot_id = sl
                    /\ stockLogs[i].quantity_before = s
                    /\ stockLogs[i].quantity_after = s - q
                    /\ stockLogs[i].quantity_change = 0 - q

\* an order of two units is COMPLETED on the happy path
C9_Witness ==
    /\ Idle
    /\ \E o \in OrderIds :
          /\ orders[o].status = "COMPLETED"
          /\ orders[o].quantity = 2
          /\ orders[o].dispensed_at # NULL
          /\ DispenseEntriesOf(o) # {}
          /\ OpenAttemptsOf(o) = {}

\* C10: an order that read-time expiry has moved to FAILED stays FAILED, its
\* payment does not become SUCCESS and no dispense command is published for it
C10_LatePaymentRejected ==
    [][\A o \in OrderIds :
          orders[o].status = "FAILED" =>
             /\ orders'[o].status = "FAILED"
             /\ payments'[o].status # "SUCCESS"
             /\ published'[o] = published[o]]_vars

\* C11: a confirmation (HTTP or MQTT) in flight for an order that is not
\* DISPENSING changes neither the order's status nor any stock nor the stock log
C11_ConfirmNeedsDispensing ==
    [][\A l \in Lanes :
          LET t == tasks[l]
          IN  (IsConfirm(t) /\ Exists(t.o) /\ orders[t.o].status # "DISPENSING") =>
                 /\ orders'[t.o].status = orders[t.o].status
                 /\ stock' = stock
                 /\ stockLogs' = stockLogs]_vars

\* C12: when the trigger requested by webhook or verify fails, the handler's
\* catch step leaves the payment SUCCESS and paid_at set, moves the order to
\* PENDING_DISPENSE with a note, and ends the handler on its normal response
C12_DispenseFailureKeepsPayment ==
    [][\A l \in Lanes :
          LET t == tasks[l]
          IN  (Nested(t) /\ t.pc = "catch" /\ tasks'[l] # t) =>
                 /\ tasks'[l] = NoTask
                 /\ payments' = payments
                 /\ payments[t.o].status = "SUCCESS"
                 /\ orders'[t.o].status = "PENDING_DISPENSE"
                 /\ orders'[t.o].notes # "NULL"
                 /\ orders'[t.o].paid_at = orders[t.o].paid_at
                 /\ orders'[t.o].paid_at # NULL]_vars

\* a paid order whose trigger failed: PENDING_DISPENSE, note recorded, payment kept
C12_Witness ==
    /\ Idle
    /\ \E o \in OrderIds :
          /\ orders[o].status = "PENDING_DISPENSE"
          /\ orders[o].notes # "NULL"
          /\ orders[o].paid_at # NULL
          /\ payments[o].status = "SUCCESS"

\* C13: every order that enters DISPENSING eventually becomes COMPLETED or
\* FAILED, also when the device never confirms
C13_DispensingEnds ==
    \A o \in OrderIds :
       (orders[o].status = "DISPENSING") ~> (orders[o].status \in Terminal)

\* C14: after a failed gateway signal (deny, cancel, expire, or verify with a
\* status other than SUCCESS) for a PENDING order the payment is FAILED, the
\* order FAILED once the handler has returned, no trigger is under way, and
\* stock, stock log, dispense log and published commands are untouched
C14_DeclineTouchesNothing ==
    \A o \in OrderIds :
       /\ payments[o].status = "FAILED" =>
             /\ stock = stock0
             /\ stockLogs = <<>>
             /\ dispenseLogs = <<>>
             /\ published[o] = 0
             /\ \A l \in Lanes : tasks[l].pc \notin {"post", "t_update", "t_insert", "catch"}
             /\ Idle => orders[o].status = "FAILED"
       /\ (Idle /\ orders[o].status = "FAILED") => payments[o].status = "FAILED"

\* a PENDING order was declined: order and payment FAILED, payment stamped
C14_Witness ==
    /\ Idle
    /\ \E o \in OrderIds :
          /\ orders[o].status = "FAILED"
          /\ payments[o].status = "FAILED"
          /\ payments[o].processed_at # NULL
          /\ orders[o].paid_at = NULL

\* C15: while an order is DISPENSING or PENDING_DISPENSE and no handler is in
\* flight, a payment signal changes neither the order, its payment, the dispense
\* log, the stock nor the published commands, and starts no handler that goes
\* on to trigger
C15_SignalAfterPaidIgnored ==
    [][\A o \in OrderIds :
          (Idle /\ orders[o].status \in {"DISPENSING", "PENDING_DISPENSE"}) =>
             /\ orders'[o] = orders[o]
             /\ payments'[o] = payments[o]
             /\ dispenseLogs' = dispenseLogs
             /\ stock' = stock
             /\ published' = published
             /\ tasks' = tasks]_vars

\* C16: verify for an order that is PAID takes the early return: it writes
\* neither the order (paid_at included) nor the payment, opens no dispense log
\* row, publishes nothing, and ends without going on to the trigger
C16_VerifyPaidNoOp ==
    [][\A l \in Lanes :
          LET t == tasks[l]
              u == tasks'[l]
          IN  /\ (t = NoTask /\ u.kind = "verify" /\ orders[u.o].status = "PAID") =>
                    /\ u.pc = "paid"
                    /\ UNCHANGED <<orders, payments, dispenseLogs, published, stock>>
              /\ (t.kind = "verify" /\ t.pc = "paid" /\ u # t) =>
                    /\ u = NoTask
                    /\ UNCHANGED <<orders, payments, dispenseLogs, published, stock>>]_vars

\* verify is answering for an order that was paid some time ago
C16_Witness ==
    \E l \in Lanes :
       /\ tasks[l].kind = "verify"
       /\ tasks[l].pc = "paid"
       /\ orders[tasks[l].o].status = "PAID"
       /\ payments[tasks[l].o].status = "SUCCESS"
       /\ now > orders[tasks[l].o].paid_at

C18_UnsentNotDispensing ==
    \A o \in OrderIds :
       (Idle /\ orders[o].status = "DISPENSING") =>
          published[o] >= Cardinality(AttemptsOf(o))

\* an attempt of order o was closed by a result that reported no success
FailureReported(o) ==
    \E i \in AttemptsOf(o) :
       dispenseLogs[i].completed_at # NULL /\ ~dispenseLogs[i].success

\* C19: once the device has reported a failed dispense for an order, no step
\* publishes another dispense command for that order
C19_NoCommandAfterFailure ==
    [][\A o \in OrderIds : FailureReported(o) => published'[o] = published[o]]_vars

\* C20: a closed dispense log row is never rewritten, and no order ever has
\* more than one row with success = TRUE
C20_OneSuccessfulAttempt ==
    [][
       /\ \A i \in 1..Len(dispenseLogs) :
             dispenseLogs[i].completed_at # NULL => dispenseLogs'[i] = dispenseLogs[i]
       /\ \A o \in OrderIds :
             Cardinality({i \in 1..Len(dispenseLogs') :
                             /\ dispenseLogs'[i].order_id = o
                             /\ dispenseLogs'[i].success}) <= 1
      ]_vars

\* C21: an order with order_items is COMPLETED only when each of its items has
\* a dispense log row closed with success and drop detected
C21_AllItemsDispensed ==
    \A o \in OrderIds :
       (HasMultipleItems(o) /\ orders[o].status = "COMPLETED") =>
          \A s \in orders[o].items :
             \E i \in AttemptsOf(o) :
                /\ dispenseLogs[i].slot_number = s
                /\ dispenseLogs[i].completed_at # NULL
                /\ dispenseLogs[i].success
                /\ dispenseLogs[i].drop_detected

Clamp(q, capacity) == Min(Max(q, 0), capacity)

\* lane l completes a manual stock update in this step
UpdateWrites(l) == tasks[l].kind = "update" /\ tasks'[l] = NoTask

\* C22 as stated: whatever the change type, a manual update with quantity t
\* leaves the slot at clamp(t, 0, capacity) and logs the stock before, that
\* value and their difference
C22_AbsoluteTarget ==
    [][\A l \in Lanes :
          UpdateWrites(l) =>
             LET t == tasks[l]
                 e == stockLogs'[Len(stockLogs')]
             IN  /\ stock'[t.s] = Clamp(t.n, Capacity(t.s))
                 /\ e.quantity_before = stock[t.s]
                 /\ e.quantity_after = Clamp(t.n, Capacity(t.s))
                 /\ e.quantity_change = e.quantity_after - e.quantity_before]_vars

\* C22 amended: MANUAL_ADJUST and AUDIT set clamp(t, 0, capacity), RESTOCK adds t
\* to the stock the handler read, capped at the capacity; the entry appended
\* holds the stock read, the stock written and their difference
C22_RestockAdds ==
    [][\A l \in Lanes :
          UpdateWrites(l) =>
             LET t == tasks[l]
                 e == stockLogs'[Len(stockLogs')]
                 after == IF t.inp = "RESTOCK"
                          THEN Min(t.loc + t.n, Capacity(t.s))
                          ELSE Clamp(t.n, Capacity(t.s))
             IN  /\ Len(stockLogs') = Len(stockLogs) + 1
                 /\ stock'[t.s] = after
                 /\ e.slot_id = t.s
                 /\ e.change_type = t.inp
                 /\ e.quantity_before = t.loc
                 /\ e.quantity_after = after
                 /\ e.quantity_change = after - t.loc]_vars

\* a RESTOCK of one unit was added to a stock of one
C22_Witness ==
    \E i \in 1..Len(stockLogs) :
       /\ stockLogs[i].change_type = "RESTOCK"
       /\ stockLogs[i].quantity_before = 1
       /\ stockLogs[i].quantity_after = 2
       /\ stock[stockLogs[i].slot_id] = 2

\* the point estimate the ledger keeps for a reported level
PointEstimate(level) ==
    CASE level = "EMPTY" -> 0
      [] level = "LOW" -> 2
      [] level = "MEDIUM" -> 5
      [] level = "HIGH" -> 8
      [] level = "FULL" -> 10

\* C23: a telemetry report of EMPTY, LOW, MEDIUM, HIGH or FULL for a slot sets
\* that slot's stock to 0, 2, 5, 8 or 10 whatever it was, and changes no order,
\* no payment and no other slot
C23_TelemetryOverwrites ==
    [][\A l \in Lanes, s \in SlotIds, level \in Levels \ {"UNKNOWN"} :
          Telemetry(l, s, level) =>
             /\ stock'[s] = PointEstimate(level)
             /\ \A r \in SlotIds \ {s} : stock'[r] = stock[r]
             /\ orders' = orders
             /\ payments' = payments]_vars

\* a slot provisioned with at most 3 units reads FULL while an order is dispensing
C23_Witness ==
    \E s \in SlotIds, o \in OrderIds :
       /\ stock[s] = 10
       /\ stock0[s] < 10
       /\ orders[o].status = "DISPENSING"

\* C24: a telemetry report that changes a slot's stock appends an AUDIT stock
\* log entry for that slot recording the change
C24_TelemetryLogged ==
    [][\A l \in Lanes, s \in SlotIds, level \in Levels :
          (Telemetry(l, s, level) /\ stock'[s] # stock[s]) =>
             /\ Len(stockLogs') = Len(stockLogs) + 1
             /\ stockLogs'[Len(stockLogs')].slot_id = s
             /\ stockLogs'[Len(stockLogs')].change_type = "AUDIT"]_vars

\* sum of the signed deltas of the first n stock log entries of slot s
RECURSIVE Logged(_, _)
Logged(s, n) ==
    IF n = 0 THEN 0
    ELSE Logged(s, n - 1)
         + (IF stockLogs[n].slot_id = s THEN stockLogs[n].quantity_change ELSE 0)

\* confirmations that have written slot s and have their DISPENSE entry yet to insert
Owing(s) ==
    {l \in Lanes : /\ tasks[l].pc = "c_slog"
                   /\ Exists(tasks[l].o)
                   /\ OrderSlot(tasks[l].o) = s}

RECURSIVE Owed(_)
Owed(ls) ==
    IF ls = {} THEN 0
    ELSE LET l == CHOOSE x \in ls : TRUE
         IN  Owed(ls \ {l}) - orders[tasks[l].o].quantity

\* C25: without telemetry, each slot's stock is its initial stock plus the sum of
\* the deltas of its stock log entries, counting the DISPENSE entry a
\* confirmation inserts right after its stock write
C25_Replayable ==
    \A s \in SlotIds :
       stock[s] = stock0[s] + Logged(s, Len(stockLogs)) + Owed(Owing(s))

\* C26: when a dispense decrement changed the slot between the read and the
\* write of a manual stock update, the stock the update leaves is that of one of
\* the two serial orders: the update applied to the decremented stock, or the
\* decrement applied to the update's result
C26_NoLostUpdate ==
    [][\A l \in Lanes :
          UpdateWrites(l) =>
             LET t == tasks[l]
                 decrement == stock[t.s] - t.loc
             IN  stock'[t.s] \in
                    {QuantityAfter(t.inp, stock[t.s], t.n, Capacity(t.s)),
                     QuantityAfter(t.inp, t.loc, t.n, Capacity(t.s)) + decrement}]_vars

\* lane l admits a POST /orders request in this step
CreateAdmitted(l) == tasks[l] = NoTask /\ tasks'[l].kind = "create"

\* C27: an order for more than the slot holds, for a disabled slot or for a slot
\* with a disabled product is refused with an insufficient-stock or an inactive
\* error that is true of the request, and a refused request creates no order
\* row and no payment row
C27_CreateRefused ==
    [][\A l \in Lanes :
          LET t == tasks[l]
              u == tasks'[l]
          IN  /\ CreateAdmitted(l) =>
                    /\ (\/ ~SlotActive(u.s)
                        \/ ~ProductActive(u.s)
                        \/ SlotStock(u.s) < u.n) => u.pc = "cr_error"
                    /\ u.pc = "cr_error" =>
                          \/ u.inp = "Insufficient stock" /\ SlotStock(u.s) < u.n
                          \/ u.inp = "Slot not found or inactive" /\ ~SlotActive(u.s)
                          \/ u.inp = "Product is not active" /\ ~ProductActive(u.s)
                    /\ UNCHANGED <<orders, payments>>
              /\ (t.kind = "create" /\ t.pc = "cr_error" /\ u # t) =>
                    /\ u = NoTask
                    /\ UNCHANGED <<orders, payments>>]_vars

\* an order for more than a slot holds is being refused and no row exists
C27_Witness ==
    /\ \A o \in OrderIds : ~Exists(o) /\ payments[o].status = "NONE"
    /\ \E l \in Lanes :
          /\ tasks[l].pc = "cr_error"
          /\ tasks[l].inp = "Insufficient stock"
          /\ tasks[l].s \in SlotIds

C29_LazyExpiry ==
    [][\A l \in Lanes :
          LET t == tasks[l]
              u == tasks'[l]
          IN  /\ (t = NoTask /\ u.kind = "status") =>
                    /\ u.pc = "g_expire" <=>
                          (orders[u.o].status = "PENDING" /\ now > orders[u.o].expires_at)
                    /\ UNCHANGED <<orders, payments, stock, stockLogs, dispenseLogs,
                                   published>>
              /\ (t.kind = "status" /\ t.pc = "g_expire" /\ u # t) =>
                    /\ orders[t.o].status = "PENDING"
                    /\ orders' = [orders EXCEPT ![t.o].status = "FAILED"]
                    /\ UNCHANGED <<payments, stock, stockLogs, dispenseLogs, published>>
              /\ (t.kind = "status" /\ t.pc # "g_expire" /\ u # t) =>
                    UNCHANGED <<orders, payments, stock, stockLogs, dispenseLogs,
                                published>>]_vars

\* an unpaid order was failed by a status read after its expiry
C29_Witness ==
    \E o \in OrderIds :
       /\ Idle
       /\ orders[o].status = "FAILED"
       /\ payments[o].status = "PENDING"
       /\ now > orders[o].expires_at

\* C30: the expiry write of a status read leaves an order alone that is PAID,
\* DISPENSING or COMPLETED by the time of the write, so that no order with a
\* SUCCESS payment is failed by expiry
C30_ExpiryOnlyPending ==
    [][\A l \in Lanes :
          LET t == tasks[l] IN
          (/\ t.kind = "status" /\ t.pc = "g_expire" /\ tasks'[l] # t
           /\ \/ orders[t.o].status \in {"PAID", "DISPENSING", "COMPLETED"}
              \/ payments[t.o].status = "SUCCESS")
             => orders' = orders]_vars

\* C31: a webhook request without a valid signature changes no order, no
\* payment and no stock, and starts no dispense trigger
C31_UnsignedWebhookRejected ==
    [][\A l \in Lanes, o \in OrderIds, ts \in TransactionStatuses :
          UnsignedWebhook(l, o, ts) =>
             /\ orders' = orders
             /\ payments' = payments
             /\ stock' = stock
             /\ tasks'[l].pc # "post"]_vars

\* C32: when the payment handlers have returned, a payment is SUCCESS exactly
\* when its order has been marked paid, and the dispense trigger is called only
\* with the payment SUCCESS and the order PAID
C32_PaymentAndOrderTogether ==
    [][
       /\ Idle' =>
             \A o \in OrderIds :
                payments'[o].status = "SUCCESS" <=> orders'[o].paid_at # NULL
       /\ \A l \in Lanes :
             (tasks[l].pc # "post" /\ tasks'[l].pc = "post") =>
                /\ payments'[tasks'[l].o].status = "SUCCESS"
                /\ orders'[tasks'[l].o].status = "PAID"
      ]_vars

\* C33: once order creation has returned, an order row exists exactly when its
\* payment row exists
C33_OrderHasPayment ==
    Idle => \A o \in OrderIds : Exists(o) <=> payments[o].status # "NONE"

\* C34: the dispense trigger accepts an order that is PENDING_DISPENSE
C34_PendingDispenseRetried ==
    \A o \in OrderIds : orders[o].status = "PENDING_DISPENSE" => Triggerable(o)

\* C35: with no handler in flight, an order that is PAID, DISPENSING,
\* PENDING_DISPENSE or COMPLETED has a payment that is SUCCESS
C35_PaidMeansSuccess ==
    Idle =>
       \A o \in OrderIds :
          orders[o].status \in {"PAID", "DISPENSING", "PENDING_DISPENSE", "COMPLETED"}
             => payments[o].status = "SUCCESS"

\* C36: an order becomes COMPLETED, and a confirmation decrements a slot for an
\* order, only when a dispense command was published for that order and its
\* dispense log row exists
C36_ConfirmNeedsCommand ==
    [][
       /\ \A o \in OrderIds :
             (orders[o].status # "COMPLETED" /\ orders'[o].status = "COMPLETED") =>
                (AttemptsOf(o) # {} /\ published[o] > 0)
       /\ \A l \in Lanes :
             (tasks[l].pc = "c_stock" /\ stock' # stock) =>
                (AttemptsOf(tasks[l].o) # {} /\ published[tasks[l].o] > 0)
      ]_vars

\* C37: the error branch of webhook and verify leaves an order alone that is
\* DISPENSING, COMPLETED or FAILED when the branch runs
C37_CatchKeepsDispensing ==
    [][\A l \in Lanes :
          LET t == tasks[l] IN
          (/\ Nested(t) /\ t.pc = "catch" /\ tasks'[l] # t
           /\ orders[t.o].status \in {"DISPENSING", "COMPLETED", "FAILED"})
             => orders' = orders]_vars

\* the same confirmation arriving by the other channel, started from this state
OtherChannel(t) ==
    IF t.kind = "confirm"
    THEN [t EXCEPT !.kind = "mqtt"]
    ELSE [t EXCEPT !.kind = "confirm", !.loc = stock[OrderSlot(t.o)]]

\* C38: the stock a result handler writes, the DISPENSE entry it inserts and the
\* order status it sets are those the handler of the other channel produces
\* from the same state and the same confirmation
C38_ChannelsAgree ==
    [][\A l \in Lanes :
          LET t == tasks[l] IN
          (t.kind \in {"confirm", "mqtt"} /\ Exists(t.o) /\ tasks'[l] # t) =>
             /\ t.pc = "c_stock" =>
                   stock'[OrderSlot(t.o)] = DecrementedStock(OtherChannel(t))
             /\ (t.pc = "c_slog" /\ t.kind = "confirm") =>
                   stockLogs'[Len(stockLogs')] = DispenseEntry(OtherChannel(t))
             /\ t.pc = "c_order" =>
                   orders'[t.o].status = OutcomeStatus(t.ok, t.drop)]_vars

\* C39: the DISPENSE entry a result handler inserts records the slot's stock as
\* it was just before the handler's decrement and as the decrement left it, its
\* change is their difference, and no other writer's step alters the entry that
\* a pending insert is going to record
C39_DispenseEntryAccurate ==
    [][\A l \in Lanes :
          LET t == tasks[l]
              s == OrderSlot(t.o) IN
          (t.kind \in {"confirm", "mqtt"} /\ Exists(t.o)) =>
             /\ (t.pc = "c_stock" /\ tasks'[l] # t /\ tasks'[l].pc = "c_slog") =>
                   /\ DispenseEntry(tasks[l])'.quantity_before = stock[s]
                   /\ DispenseEntry(tasks[l])'.quantity_after = stock'[s]
             /\ (t.pc = "c_slog" /\ tasks'[l] # t) =>
                   LET e == stockLogs'[Len(stockLogs')] IN
                   e.quantity_after - e.quantity_before = e.quantity_change
             /\ (t.pc = "c_slog" /\ tasks'[l] = t) =>
                   DispenseEntry(tasks[l])' = DispenseEntry(tasks[l])]_vars

\* C40: a telemetry slot entry whose level is none of EMPTY, LOW, MEDIUM, HIGH
\* and FULL leaves the slot's current_stock unchanged
C40_UnknownLevelIgnored ==
    [][\A l \in Lanes, s \in SlotIds, level \in Levels :
          (/\ level \notin {"EMPTY", "LOW", "MEDIUM", "HIGH", "FULL"}
           /\ Telemetry(l, s, level)) => stock'[s] = stock[s]]_vars

====
